---- MODULE Spec2Model ----
(***************************************************************************)
(* A model of Fig_create.py: the loader/normalizer, the colorizer, the     *)
(* merger and the driver generate_figure, which walks the conditions,      *)
(* fills a 3 x N grid of axes, adds a scale bar and saves the figure.      *)
(*                                                                         *)
(* Samples are exact rationals <<n, d>> in lowest terms (d > 0); the three *)
(* pairs with d = 0 stand for the float values nan, +inf and -inf.         *)
(* An image is [shape, px]: px is the raster of the image written as a     *)
(* repeating pattern, the pixel at raster position k (from 0) carrying     *)
(* px[(k % Len(px)) + 1].  Every operation of the program on samples is    *)
(* element-wise or a min/max over all samples, so it acts on the pattern.  *)
(***************************************************************************)
EXTENDS Integers, Sequences, FiniteSets

VARIABLES
    cfg,        \* the module-level configuration (lines 11-30) of this run
    pc,         \* position of generate_figure
    col_idx,    \* loop variable of line 91 (-1 before the first iteration)
    raw_green,  \* local of generate_figure (line 96)
    raw_red,    \* local of generate_figure (line 97)
    vis_green,  \* local of generate_figure (line 100)
    vis_red,    \* local of generate_figure (line 101)
    vis_merge,  \* local of generate_figure (line 102)
    axes,       \* the grid of axes: what was drawn in each cell
    rect,       \* the patches added to axes[2, -1]
    exc,        \* the exception that left generate_figure, or "none"
    saved,      \* number of times final_figure.png was written
    stdout,     \* the lines printed
    loaded,     \* history: per processed condition, what the loader returned
    trace,      \* history: the steps executed, in order
    fn,         \* function-level harness: the function called
    arg,        \* function-level harness: its arguments
    ret         \* function-level harness: what it returned

vars == <<cfg, pc, col_idx, raw_green, raw_red, vis_green, vis_red, vis_merge,
          axes, rect, exc, saved, stdout, loaded, trace, fn, arg, ret>>

pipeVars == <<cfg, pc, col_idx, raw_green, raw_red, vis_green, vis_red,
              vis_merge, axes, rect, exc, saved, stdout, loaded, trace>>

fnVars == <<fn, arg, ret>>

----------------------------------------------------------------------------
(* Bounds of the model *)

MaxCols == 2

MaxLen == 2

MaxSample == 2

----------------------------------------------------------------------------
(* Program constants *)

SCALE_BAR_LENGTH_UM == 100

\* PIXELS_PER_MICRON = 2.5 = 25 / 10
PIXELS_PER_MICRON_NUM == 25

PIXELS_PER_MICRON_DEN == 10

\* np.zeros((100, 100))
FALLBACK_SIZE == 100

\* num_rows = 3
num_rows == 3

----------------------------------------------------------------------------
(* Exact arithmetic on samples *)

Abs(x) == IF x < 0 THEN -x ELSE x

RECURSIVE GCD(_, _)
GCD(a, b) == IF b = 0 THEN a ELSE GCD(b, a % b)

Sign(x) == IF x > 0 THEN 1 ELSE IF x < 0 THEN -1 ELSE 0

\* n / d, d # 0, in lowest terms with a positive denominator
Rat(n, d) ==
    LET g == GCD(Abs(n), Abs(d))
        s == Sign(d)
    IN  <<(s * n) \div g, (s * d) \div g>>

Zero == <<0, 1>>

One == <<1, 1>>

RLe(a, b) == a[1] * b[2] <= b[1] * a[2]

RLt(a, b) == a[1] * b[2] < b[1] * a[2]

RSub(a, b) == Rat(a[1] * b[2] - b[1] * a[2], a[2] * b[2])

RAdd(a, b) == Rat(a[1] * b[2] + b[1] * a[2], a[2] * b[2])

RMul(a, b) == Rat(a[1] * b[1], a[2] * b[2])

\* float division: x / 0 is nan, +inf or -inf, never an exception (numpy)
RDiv(a, b) ==
    IF b[1] = 0 THEN <<Sign(a[1]), 0>>
    ELSE Rat(a[1] * b[2], a[2] * b[1])

Range(s) == {s[i] : i \in DOMAIN s}

\* ndarray.min() and ndarray.max() of a non-empty array of finite samples
ArrMin(px) == CHOOSE x \in Range(px) : \A y \in Range(px) : RLe(x, y)

ArrMax(px) == CHOOSE x \in Range(px) : \A y \in Range(px) : RLe(y, x)

\* np.clip(x, 0, 1) on one sample
Clip(x) == IF RLt(x, Zero) THEN Zero ELSE IF RLt(One, x) THEN One ELSE x

----------------------------------------------------------------------------
(* Images *)

NoImage == [shape |-> <<>>, px |-> <<>>]

\* np.zeros(shape)
zeros(shape) == [shape |-> shape, px |-> <<Zero>>]

\* img.astype(float): integer samples become real-valued samples
astype_float(img) ==
    [shape |-> img.shape, px |-> [i \in DOMAIN img.px |-> Rat(img.px[i], 1)]]

\* lines 45-49, with the guard of line 47 written img.max() >= 0
Normalize_GuardGE(img) ==
    LET f  == astype_float(img)
        lo == ArrMin(f.px)
        g  == [i \in DOMAIN f.px |-> RSub(f.px[i], lo)]
        hi == ArrMax(g)
    IN  IF RLe(Zero, hi)
        THEN [img |-> [shape |-> img.shape,
                       px |-> [i \in DOMAIN g |-> RDiv(g[i], hi)]],
              divided |-> TRUE]
        ELSE [img |-> [shape |-> img.shape, px |-> g], divided |-> FALSE]

\* lines 45-49, dividing by the maximum taken before the minimum is subtracted
Normalize_OldMax(img) ==
    LET f  == astype_float(img)
        lo == ArrMin(f.px)
        hi == ArrMax(f.px)
        g  == [i \in DOMAIN f.px |-> RSub(f.px[i], lo)]
    IN  IF RLt(Zero, hi)
        THEN [img |-> [shape |-> img.shape,
                       px |-> [i \in DOMAIN g |-> RDiv(g[i], hi)]],
              divided |-> TRUE]
        ELSE [img |-> [shape |-> img.shape, px |-> g], divided |-> FALSE]

\* lines 45-49: min-max scaling of a decoded, non-empty array
Normalize(img) ==
    LET f  == astype_float(img)
        lo == ArrMin(f.px)
        g  == [i \in DOMAIN f.px |-> RSub(f.px[i], lo)]
        hi == ArrMax(g)
    IN  IF RLt(Zero, hi)
        THEN [img |-> [shape |-> img.shape,
                       px |-> [i \in DOMAIN g |-> RDiv(g[i], hi)]],
              divided |-> TRUE]
        ELSE [img |-> [shape |-> img.shape, px |-> g], divided |-> FALSE]

\* What tifffile.imread(filepath) can do: raise, or return an array.
ReadFailures == {"FileNotFoundError", "PermissionError", "TiffFileError"}

Raise(kind) == [kind |-> kind, img |-> NoImage]

Decoded(img) == [kind |-> "ok", img |-> img]

\* lines 36-49.  raised: the exception that reaches the caller; printed:
\* the line written by print; divided: whether line 48 ran.
load_and_normalize(read) ==
    IF read.kind = "FileNotFoundError"
    THEN [raised |-> "none", img |-> zeros(<<FALLBACK_SIZE, FALLBACK_SIZE>>),
          printed |-> <<"Error: File not found">>, divided |-> FALSE]
    ELSE IF read.kind # "ok"
    THEN [raised |-> read.kind, img |-> NoImage, printed |-> <<>>,
          divided |-> FALSE]
    ELSE IF read.img.px = <<>>
    THEN \* min() of a zero-size array
         [raised |-> "ValueError", img |-> NoImage, printed |-> <<>>,
          divided |-> FALSE]
    ELSE LET n == Normalize(read.img)
         IN  [raised |-> "none", img |-> n.img, printed |-> <<>>,
              divided |-> n.divided]

\* lines 51-61.  An RGB image is [shape, ch]: ch[1], ch[2], ch[3] are the
\* patterns of the channels of index 0 (red), 1 (green) and 2 (blue).
colorize(img_data, color) ==
    IF Len(img_data.shape) # 2
    THEN [raised |-> "ValueError", img |-> NoImage]
    ELSE [raised |-> "none",
          img |-> [shape |-> img_data.shape \o <<3>>,
                   ch |-> <<IF color = "red" THEN img_data.px ELSE <<Zero>>,
                            IF color = "green" THEN img_data.px ELSE <<Zero>>,
                            <<Zero>>>>]]

\* numpy's rule for merge[..., 0] = red_img: the value's shape, aligned on
\* the right, must match the target's in each dimension or be 1 there.
Broadcastable(from, to) ==
    /\ Len(from) <= Len(to)
    /\ \A i \in 1..Len(from) :
          LET f == from[i]
              t == to[Len(to) - Len(from) + i]
          IN  f = t \/ f = 1

\* The pattern of px broadcast to the target shape.  Of the shapes that
\* broadcast without being equal, the images of this model hold only the
\* 1 x 1 one, whose single sample fills the target.
BroadcastPx(img, to) ==
    IF img.shape = to THEN img.px ELSE <<img.px[1]>>

ClipPx(px) == [i \in DOMAIN px |-> Clip(px[i])]

\* lines 63-75 without the clip of line 74
create_merge_NoClip(green_img, red_img) ==
    IF Len(green_img.shape) # 2
    THEN [raised |-> "ValueError", img |-> NoImage]
    ELSE IF ~Broadcastable(red_img.shape, green_img.shape)
    THEN [raised |-> "ValueError", img |-> NoImage]
    ELSE [raised |-> "none",
          img |-> [shape |-> green_img.shape \o <<3>>,
                   ch |-> <<BroadcastPx(red_img, green_img.shape),
                            green_img.px,
                            <<Zero>>>>]]

\* lines 63-75
create_merge(green_img, red_img) ==
    IF Len(green_img.shape) # 2
    THEN [raised |-> "ValueError", img |-> NoImage]
    ELSE IF ~Broadcastable(red_img.shape, green_img.shape)
    THEN [raised |-> "ValueError", img |-> NoImage]
    ELSE [raised |-> "none",
          img |-> [shape |-> green_img.shape \o <<3>>,
                   ch |-> <<ClipPx(BroadcastPx(red_img, green_img.shape)),
                            ClipPx(green_img.px),
                            ClipPx(<<Zero>>)>>]]

----------------------------------------------------------------------------
(* The configuration section (lines 11-30) *)

\* num_cols = len(COL_LABELS); green_len, red_len = the lengths of the two
\* rows of file_matrix; n_row_labels = len(ROW_LABELS).
Configs ==
    [num_cols : 0..MaxCols, green_len : 0..MaxCols, red_len : 0..MaxCols,
     n_row_labels : 2..3, ADD_SCALEBAR : BOOLEAN]

\* The files a declared path may name: absent, present but unreadable,
\* or a TIFF that decodes to an array of integer samples.
DiskImages ==
    {[shape |-> <<280, 264>>, px |-> <<4>>],
     [shape |-> <<280, 264>>, px |-> <<0, 9>>],
     [shape |-> <<300, 263>>, px |-> <<0, 9>>],
     [shape |-> <<1, 1>>, px |-> <<7>>],
     [shape |-> <<2, 280, 264>>, px |-> <<0, 9>>]}

DiskReads == {Raise(k) : k \in ReadFailures} \cup {Decoded(i) : i \in DiskImages}

----------------------------------------------------------------------------
(* The scale bar (lines 139-150) *)

\* bar_len_px = SCALE_BAR_LENGTH_UM * PIXELS_PER_MICRON
bar_len_px ==
    RMul(Rat(SCALE_BAR_LENGTH_UM, 1),
         Rat(PIXELS_PER_MICRON_NUM, PIXELS_PER_MICRON_DEN))

\* Rectangle((img_w - bar_len_px - img_w*0.05, img_h - img_h*0.1),
\*           bar_len_px, img_h*0.02), from the origin without the bar length
ScaleBarRect_NoBar(shape) ==
    LET img_h == Rat(shape[1], 1)
        img_w == Rat(shape[2], 1)
    IN  [x |-> RSub(img_w, RMul(img_w, Rat(5, 100))),
         y |-> RSub(img_h, RMul(img_h, Rat(10, 100))),
         width |-> bar_len_px,
         height |-> RMul(img_h, Rat(2, 100)),
         ref |-> shape]

\* lines 144-149: img_h, img_w = raw_green.shape, then the Rectangle
ScaleBarRect(shape) ==
    LET img_h == Rat(shape[1], 1)
        img_w == Rat(shape[2], 1)
    IN  [x |-> RSub(RSub(img_w, bar_len_px), RMul(img_w, Rat(5, 100))),
         y |-> RSub(img_h, RMul(img_h, Rat(10, 100))),
         width |-> bar_len_px,
         height |-> RMul(img_h, Rat(2, 100)),
         ref |-> shape]

----------------------------------------------------------------------------
(* generate_figure (lines 81-159) *)

Cells(n) == (0..(num_rows - 1)) \X (0..(n - 1))

EmptyAxes == [images |-> <<>>, texts |-> <<>>, title |-> -1, ticks |-> TRUE]

\* plt.subplots(num_rows, num_cols) with squeeze=True: a 2-D array of axes,
\* or a 1-D one when there is a single column.
Subplots(n) ==
    [ndim |-> IF n = 1 THEN 1 ELSE 2, cells |-> [c \in Cells(n) |-> EmptyAxes]]

Event(step) == [step |-> step, col |-> col_idx]

\* the exception caught around the loop and dropped: the run goes on to save
Throw_Swallowed(e) ==
    /\ exc' = e
    /\ pc' = "save"

\* an exception leaves generate_figure: nothing in it catches
Throw(e) ==
    /\ exc' = e
    /\ pc' = "raised"

Init ==
    /\ cfg \in Configs
    /\ pc = "setup"
    /\ col_idx = -1
    /\ raw_green = NoImage
    /\ raw_red = NoImage
    /\ vis_green = NoImage
    /\ vis_red = NoImage
    /\ vis_merge = NoImage
    /\ axes = Subplots(0)
    /\ rect = <<>>
    /\ exc = "none"
    /\ saved = 0
    /\ stdout = <<>>
    /\ loaded = <<>>
    /\ trace = <<>>
    /\ fn = "none"
    /\ arg = <<>>
    /\ ret = <<>>

\* lines 82-89
Setup ==
    /\ pc = "setup"
    /\ IF cfg.num_cols = 0
       THEN /\ Throw("ValueError")
            /\ UNCHANGED <<axes, stdout>>
       ELSE /\ axes' = Subplots(cfg.num_cols)
            /\ stdout' = Append(stdout, "Generating figure...")
            /\ pc' = "for"
            /\ exc' = exc
    /\ trace' = Append(trace, Event("setup"))
    /\ UNCHANGED <<cfg, col_idx, raw_green, raw_red, vis_green, vis_red,
                   vis_merge, rect, saved, loaded, fnVars>>

\* line 91: the next value of range(num_cols), or the end of the loop
ForLoop ==
    /\ pc = "for"
    /\ IF col_idx + 1 < cfg.num_cols
       THEN /\ col_idx' = col_idx + 1
            /\ pc' = "paths"
       ELSE /\ col_idx' = col_idx
            /\ pc' = "scalebar"
    /\ UNCHANGED <<cfg, raw_green, raw_red, vis_green, vis_red, vis_merge,
                   axes, rect, exc, saved, stdout, loaded, trace, fnVars>>

\* lines 93-94: file_matrix[0][col_idx], file_matrix[1][col_idx]
Paths ==
    /\ pc = "paths"
    /\ IF col_idx >= cfg.green_len \/ col_idx >= cfg.red_len
       THEN Throw("IndexError")
       ELSE /\ pc' = "load_green"
            /\ exc' = exc
    /\ trace' = Append(trace, Event("paths"))
    /\ UNCHANGED <<cfg, col_idx, raw_green, raw_red, vis_green, vis_red,
                   vis_merge, axes, rect, saved, stdout, loaded, fnVars>>

\* line 96
LoadGreen ==
    /\ pc = "load_green"
    /\ \E read \in DiskReads :
          LET r == load_and_normalize(read)
          IN  /\ IF r.raised # "none"
                 THEN /\ Throw(r.raised)
                      /\ UNCHANGED raw_green
                 ELSE /\ raw_green' = r.img
                      /\ pc' = "load_red"
                      /\ exc' = exc
              /\ stdout' = stdout \o r.printed
              /\ loaded' = Append(loaded, [col |-> col_idx,
                                           g_read |-> read.kind, g |-> r.img,
                                           r_read |-> "none", r |-> NoImage])
    /\ trace' = Append(trace, Event("load_green"))
    /\ UNCHANGED <<cfg, col_idx, raw_red, vis_green, vis_red, vis_merge,
                   axes, rect, saved, fnVars>>

\* line 97
LoadRed ==
    /\ pc = "load_red"
    /\ \E read \in DiskReads :
          LET r == load_and_normalize(read)
          IN  /\ IF r.raised # "none"
                 THEN /\ Throw(r.raised)
                      /\ UNCHANGED raw_red
                 ELSE /\ raw_red' = r.img
                      /\ pc' = "colorize"
                      /\ exc' = exc
              /\ stdout' = stdout \o r.printed
              /\ loaded' = [loaded EXCEPT ![Len(loaded)].r_read = read.kind,
                                          ![Len(loaded)].r = r.img]
    /\ trace' = Append(trace, Event("load_red"))
    /\ UNCHANGED <<cfg, col_idx, raw_green, vis_green, vis_red, vis_merge,
                   axes, rect, saved, fnVars>>

\* lines 100-101
Colorize ==
    /\ pc = "colorize"
    /\ LET g == colorize(raw_green, "green")
           r == colorize(raw_red, "red")
       IN  IF g.raised # "none"
           THEN /\ Throw(g.raised)
                /\ UNCHANGED <<vis_green, vis_red>>
           ELSE IF r.raised # "none"
           THEN /\ Throw(r.raised)
                /\ vis_green' = g.img
                /\ UNCHANGED vis_red
           ELSE /\ vis_green' = g.img
                /\ vis_red' = r.img
                /\ pc' = "merge"
                /\ exc' = exc
    /\ trace' = Append(trace, Event("colorize"))
    /\ UNCHANGED <<cfg, col_idx, raw_green, raw_red, vis_merge, axes, rect,
                   saved, stdout, loaded, fnVars>>

\* line 102
Merge ==
    /\ pc = "merge"
    /\ LET m == create_merge(raw_green, raw_red)
       IN  IF m.raised # "none"
           THEN /\ Throw(m.raised)
                /\ UNCHANGED vis_merge
           ELSE /\ vis_merge' = m.img
                /\ pc' = "place"
                /\ exc' = exc
    /\ trace' = Append(trace, Event("merge"))
    /\ UNCHANGED <<cfg, col_idx, raw_green, raw_red, vis_green, vis_red,
                   axes, rect, saved, stdout, loaded, fnVars>>

\* ax.imshow(X)
imshow(ax, X) == [ax EXCEPT !.images = Append(@, X)]

\* lines 106-115 with the merge drawn on ax_r instead of ax_m
Place_MergeOnRed ==
    /\ pc = "place"
    /\ IF axes.ndim # 2
       THEN /\ Throw("IndexError")
            /\ UNCHANGED axes
       ELSE /\ axes' = [axes EXCEPT
                    !.cells[<<0, col_idx>>] = imshow(@, vis_green),
                    !.cells[<<1, col_idx>>] = imshow(imshow(@, vis_red),
                                                     vis_merge)]
            /\ pc' = "decorate"
            /\ exc' = exc
    /\ trace' = Append(trace, Event("place"))
    /\ UNCHANGED <<cfg, col_idx, raw_green, raw_red, vis_green, vis_red,
                   vis_merge, rect, saved, stdout, loaded, fnVars>>

\* lines 106-115: the three cells of column col_idx receive their images
Place ==
    /\ pc = "place"
    /\ IF axes.ndim # 2
       THEN \* axes[0, col_idx] on the 1-D array of a single-column figure
            /\ Throw("IndexError")
            /\ UNCHANGED axes
       ELSE /\ axes' = [axes EXCEPT
                    !.cells[<<0, col_idx>>] = imshow(@, vis_green),
                    !.cells[<<1, col_idx>>] = imshow(@, vis_red),
                    !.cells[<<2, col_idx>>] = imshow(@, vis_merge)]
            /\ pc' = "decorate"
            /\ exc' = exc
    /\ trace' = Append(trace, Event("place"))
    /\ UNCHANGED <<cfg, col_idx, raw_green, raw_red, vis_green, vis_red,
                   vis_merge, rect, saved, stdout, loaded, fnVars>>

\* lines 118-123: ticks and spines removed from the cells of column col
Cleanup(cells, col) ==
    [c \in DOMAIN cells |->
        IF c[2] = col THEN [cells[c] EXCEPT !.ticks = FALSE] ELSE cells[c]]

\* lines 126-133: ROW_LABELS[0], [1], [2] written in the first column, as far
\* as ROW_LABELS reaches
RowTexts(cells, col, n) ==
    [c \in DOMAIN cells |->
        IF col = 0 /\ c[2] = 0 /\ c[1] < n
        THEN [cells[c] EXCEPT !.texts = Append(@, c[1])]
        ELSE cells[c]]

\* line 136: axes[0, col_idx].set_title(COL_LABELS[col_idx])
SetTitle(cells, col) == [cells EXCEPT ![<<0, col>>].title = col]

\* lines 118-136 with the scale-bar block of lines 139-150 indented into the
\* loop body
Decorate_WithScaleBar ==
    /\ pc = "decorate"
    /\ LET cleaned  == Cleanup(axes.cells, col_idx)
           labelled == RowTexts(cleaned, col_idx, cfg.n_row_labels)
       IN  IF col_idx = 0 /\ cfg.n_row_labels < num_rows
           THEN /\ Throw("IndexError")
                /\ axes' = [axes EXCEPT !.cells = labelled]
                /\ trace' = Append(trace, Event("decorate"))
                /\ UNCHANGED rect
           ELSE /\ axes' = [axes EXCEPT !.cells = SetTitle(labelled, col_idx)]
                /\ pc' = "for"
                /\ exc' = exc
                /\ IF cfg.ADD_SCALEBAR
                   THEN /\ rect' = Append(rect, ScaleBarRect(raw_green.shape))
                        /\ trace' = trace \o <<Event("decorate"),
                                               Event("scalebar")>>
                   ELSE /\ rect' = rect
                        /\ trace' = Append(trace, Event("decorate"))
    /\ UNCHANGED <<cfg, col_idx, raw_green, raw_red, vis_green, vis_red,
                   vis_merge, saved, stdout, loaded, fnVars>>

\* lines 118-136
Decorate ==
    /\ pc = "decorate"
    /\ LET cleaned  == Cleanup(axes.cells, col_idx)
           labelled == RowTexts(cleaned, col_idx, cfg.n_row_labels)
       IN  IF col_idx = 0 /\ cfg.n_row_labels < num_rows
           THEN /\ Throw("IndexError")
                /\ axes' = [axes EXCEPT !.cells = labelled]
           ELSE /\ axes' = [axes EXCEPT !.cells = SetTitle(labelled, col_idx)]
                /\ pc' = "for"
                /\ exc' = exc
    /\ trace' = Append(trace, Event("decorate"))
    /\ UNCHANGED <<cfg, col_idx, raw_green, raw_red, vis_green, vis_red,
                   vis_merge, rect, saved, stdout, loaded, fnVars>>

\* lines 139-150: last_ax.add_patch(rect) when ADD_SCALEBAR
ScaleBar ==
    /\ pc = "scalebar"
    /\ IF cfg.ADD_SCALEBAR
       THEN /\ rect' = Append(rect, ScaleBarRect(raw_green.shape))
            /\ trace' = Append(trace, Event("scalebar"))
       ELSE UNCHANGED <<rect, trace>>
    /\ pc' = "save"
    /\ UNCHANGED <<cfg, col_idx, raw_green, raw_red, vis_green, vis_red,
                   vis_merge, axes, exc, saved, stdout, loaded, fnVars>>

\* lines 153-159
Save ==
    /\ pc = "save"
    /\ saved' = saved + 1
    /\ stdout' = Append(stdout, "Done! Saved as final_figure.png")
    /\ pc' = "done"
    /\ trace' = Append(trace, Event("save"))
    /\ UNCHANGED <<cfg, col_idx, raw_green, raw_red, vis_green, vis_red,
                   vis_merge, axes, rect, exc, loaded, fnVars>>

Next ==
    \/ Setup
    \/ ForLoop
    \/ Paths
    \/ LoadGreen
    \/ LoadRed
    \/ Colorize
    \/ Merge
    \/ Place
    \/ Decorate
    \/ ScaleBar
    \/ Save

Spec == Init /\ [][Next]_vars

----------------------------------------------------------------------------
(* The functions called on their own: load_and_normalize on every outcome  *)
(* of the read, create_merge on arbitrary pairs of images.                 *)

Patterns(S, n) == UNION {[1..k -> S] : k \in 1..n}

FnShapes == {<<1, 1>>, <<2, 3>>}

ImagesOver(S) ==
    {[shape |-> sh, px |-> p] : sh \in FnShapes, p \in Patterns(S, MaxLen)}

Sized(imgs) == {i \in imgs : Len(i.px) <= i.shape[1] * i.shape[2]}

\* decoded TIFFs: integer samples of either sign; the last one has no pixel
RawImages ==
    Sized(ImagesOver((-MaxSample)..MaxSample))
    \cup {[shape |-> <<0, 3>>, px |-> <<>>]}

FnReads == {Raise(k) : k \in ReadFailures} \cup {Decoded(i) : i \in RawImages}

\* real-valued samples from -1/2 to 3/2
MergeSamples == {Rat(k, 2) : k \in (-1)..3}

MergeImages == Sized(ImagesOver(MergeSamples))

FnInit ==
    /\ cfg = [num_cols |-> 0, green_len |-> 0, red_len |-> 0,
              n_row_labels |-> 3, ADD_SCALEBAR |-> FALSE]
    /\ pc = "call"
    /\ col_idx = -1
    /\ raw_green = NoImage
    /\ raw_red = NoImage
    /\ vis_green = NoImage
    /\ vis_red = NoImage
    /\ vis_merge = NoImage
    /\ axes = Subplots(0)
    /\ rect = <<>>
    /\ exc = "none"
    /\ saved = 0
    /\ stdout = <<>>
    /\ loaded = <<>>
    /\ trace = <<>>
    /\ ret = <<>>
    /\ \/ /\ fn = "load_and_normalize"
          /\ arg \in FnReads
       \/ /\ fn = "create_merge"
          /\ arg \in [green_img : MergeImages, red_img : MergeImages]

CallLoad ==
    /\ pc = "call"
    /\ fn = "load_and_normalize"
    /\ ret' = load_and_normalize(arg)
    /\ pc' = "returned"
    /\ UNCHANGED <<cfg, col_idx, raw_green, raw_red, vis_green, vis_red,
                   vis_merge, axes, rect, exc, saved, stdout, loaded, trace,
                   fn, arg>>

CallMerge ==
    /\ pc = "call"
    /\ fn = "create_merge"
    /\ ret' = create_merge(arg.green_img, arg.red_img)
    /\ pc' = "returned"
    /\ UNCHANGED <<cfg, col_idx, raw_green, raw_red, vis_green, vis_red,
                   vis_merge, axes, rect, exc, saved, stdout, loaded, trace,
                   fn, arg>>

FnNext ==
    \/ CallLoad
    \/ CallMerge

FnSpec == FnInit /\ [][FnNext]_vars

----------------------------------------------------------------------------
(* Vocabulary of the properties *)

LoadReturned == pc = "returned" /\ fn = "load_and_normalize"

MergeReturned == pc = "returned" /\ fn = "create_merge"

Constant(px) == \A i, j \in DOMAIN px : px[i] = px[j]

InUnit(x) == x[2] > 0 /\ 0 <= x[1] /\ x[1] <= x[2]

Clamped(x) == IF x[1] < 0 THEN <<0, 1>> ELSE IF x[1] > x[2] THEN <<1, 1>> ELSE x

Last(s) == s[Len(s)]

IsAllZero(px) == \A i \in DOMAIN px : px[i] = <<0, 1>>

\* the configuration lists agree in length and the grid has two axes
Consistent ==
    /\ cfg.num_cols >= 2
    /\ cfg.green_len = cfg.num_cols
    /\ cfg.red_len = cfg.num_cols
    /\ cfg.n_row_labels = 3

Drawn == {c \in DOMAIN axes.cells : axes.cells[c].images # <<>>}

----------------------------------------------------------------------------
(* C1: whatever the failure of the read (file missing, or present but      *)
(* unreadable), load_and_normalize raises nothing to its caller, prints    *)
(* the failure and returns the all-zero 100 x 100 placeholder.             *)
C1_LoaderNeverRaises ==
    (LoadReturned /\ arg.kind \in ReadFailures) =>
        /\ ret.raised = "none"
        /\ ret.printed # <<>>
        /\ ret.img.shape = <<100, 100>>
        /\ \A i \in DOMAIN ret.img.px : ret.img.px[i] = <<0, 1>>

(* C5: a decoded image whose samples are not all equal is returned with    *)
(* minimum exactly 0 and maximum exactly 1, every sample in [0, 1].        *)
C5_NormalizedRange ==
    (LoadReturned /\ arg.kind = "ok" /\ ~Constant(arg.img.px)) =>
        /\ ret.raised = "none"
        /\ ret.img.shape = arg.img.shape
        /\ \E i \in DOMAIN ret.img.px : ret.img.px[i] = <<0, 1>>
        /\ \E i \in DOMAIN ret.img.px : ret.img.px[i] = <<1, 1>>
        /\ \A i \in DOMAIN ret.img.px : InUnit(ret.img.px[i])

C5_Witness ==
    /\ LoadReturned
    /\ arg.kind = "ok"
    /\ arg.img.px = <<-1, 2>>
    /\ ret.divided
    /\ ret.img.px = <<<<0, 1>>, <<1, 1>>>>

(* C6: a decoded image whose samples all equal one constant (positive,     *)
(* zero or negative) is returned all zero, and line 48 does not divide.    *)
C6_ConstantToZero ==
    (LoadReturned /\ arg.kind = "ok" /\ arg.img.px # <<>>
        /\ Constant(arg.img.px)) =>
        /\ ret.raised = "none"
        /\ ~ret.divided
        /\ ret.img.shape = arg.img.shape
        /\ DOMAIN ret.img.px = DOMAIN arg.img.px
        /\ \A i \in DOMAIN ret.img.px : ret.img.px[i] = <<0, 1>>

C6_Witness ==
    /\ LoadReturned
    /\ arg.kind = "ok"
    /\ arg.img.px = <<-2, -2>>
    /\ ret.raised = "none"
    /\ ~ret.divided

(* C7: for inputs of one shape, create_merge returns green_img clamped to  *)
(* [0, 1] in channel 1, red_img clamped to [0, 1] in channel 0 and zero in *)
(* channel 2; every sample lies in [0, 1]; swapping the arguments swaps    *)
(* the two channels.                                                       *)
C7_MergeChannels ==
    (MergeReturned /\ arg.green_img.shape = arg.red_img.shape) =>
        LET g == arg.green_img.px
            r == arg.red_img.px
            m == ret.img
            swapped == create_merge(arg.red_img, arg.green_img).img
        IN  /\ ret.raised = "none"
            /\ m.shape = arg.green_img.shape \o <<3>>
            /\ m.ch[2] = [i \in DOMAIN g |-> Clamped(g[i])]
            /\ m.ch[1] = [i \in DOMAIN r |-> Clamped(r[i])]
            /\ \A i \in DOMAIN m.ch[3] : m.ch[3][i] = <<0, 1>>
            /\ \A k \in 1..3 : \A i \in DOMAIN m.ch[k] : InUnit(m.ch[k][i])
            /\ swapped.ch[1] = m.ch[2]
            /\ swapped.ch[2] = m.ch[1]

C7_Witness ==
    /\ MergeReturned
    /\ arg.green_img.shape = <<2, 3>>
    /\ arg.red_img.shape = <<2, 3>>
    /\ arg.green_img.px = <<<<3, 2>>, <<1, 2>>>>
    /\ arg.red_img.px = <<<<-1, 2>>, <<1, 1>>>>
    /\ ret.img.ch = <<<<<<0, 1>>, <<1, 1>>>>, <<<<1, 1>>, <<1, 2>>>>,
                      <<<<0, 1>>>>>>

----------------------------------------------------------------------------
(* Vocabulary of the properties of generate_figure *)

Aborted == pc = "raised"

GridPassEnded == pc \in {"scalebar", "save", "done"}

\* the current condition has a missing file, and its other file is missing
\* too or decodes to a 2-D image
MissingInCurrent ==
    /\ loaded # <<>>
    /\ LET cur == Last(loaded)
       IN  /\ cur.r_read # "none"
           /\ "FileNotFoundError" \in {cur.g_read, cur.r_read}
           /\ {cur.g_read, cur.r_read} \subseteq {"FileNotFoundError", "ok"}
           /\ Len(cur.g.shape) = 2
           /\ Len(cur.r.shape) = 2

StepsOf(name) == {i \in DOMAIN trace : trace[i].step = name}

Rank(step) ==
    CASE step = "setup" -> 0
      [] step = "paths" -> 1
      [] step = "load_green" -> 2
      [] step = "load_red" -> 3
      [] step = "colorize" -> 4
      [] step = "merge" -> 5
      [] step = "place" -> 6
      [] step = "decorate" -> 7
      [] step = "scalebar" -> 8
      [] step = "save" -> 9

\* event a comes strictly before event b in the order of a single pass
Before(a, b) == a.col < b.col \/ (a.col = b.col /\ Rank(a.step) < Rank(b.step))

----------------------------------------------------------------------------
(* C2: a run in which a declared file is missing, the configuration being  *)
(* consistent and the sibling file whatever it is, does not abort: it goes *)
(* on to the export, the missing file's panel being all black.             *)
C2_MissingFileStillExports ==
    (Consistent /\ MissingInCurrent) => ~Aborted

(* C3: when the lists of the configuration disagree in length, the error   *)
(* comes before any work: no image has been loaded and no cell drawn in a  *)
(* run that ends with it.                                                  *)
C3_ConfigErrorBeforeWork ==
    (Aborted /\ exc = "IndexError" /\ Last(trace).step = "paths") =>
        /\ loaded = <<>>
        /\ Drawn = {}

(* C4: a run that aborts with a fatal error never reaches the export: the  *)
(* output file is written only by a run that raised nothing, as its last   *)
(* step.                                                                   *)
C4_NoExportOnAbort ==
    /\ (Aborted \/ exc # "none") => saved = 0
    /\ saved > 0 => pc = "done"

C4_Witness ==
    /\ Aborted
    /\ exc = "ValueError"
    /\ Last(trace).step = "merge"
    /\ Len(loaded) = 2
    /\ Drawn # {}
    /\ saved = 0

(* C8: with consistent configuration lists and no fatal error, the grid    *)
(* pass ends with each of the 3 x N cells drawn exactly once: (0, c) the   *)
(* green-colorized image, (1, c) the red-colorized image and (2, c) the    *)
(* merge of the c-th declared condition.                                   *)
C8_GridFilled ==
    (GridPassEnded /\ Consistent) =>
        /\ DOMAIN axes.cells = (0..2) \X (0..(cfg.num_cols - 1))
        /\ Len(loaded) = cfg.num_cols
        /\ \A c \in 0..(cfg.num_cols - 1) :
              LET cond == loaded[c + 1]
                  G == axes.cells[<<0, c>>].images
                  R == axes.cells[<<1, c>>].images
                  M == axes.cells[<<2, c>>].images
              IN  /\ cond.col = c
                  /\ axes.cells[<<0, c>>].title = c
                  /\ Len(G) = 1 /\ Len(R) = 1 /\ Len(M) = 1
                  /\ G[1].shape = cond.g.shape \o <<3>>
                  /\ G[1].ch[2] = cond.g.px
                  /\ IsAllZero(G[1].ch[1]) /\ IsAllZero(G[1].ch[3])
                  /\ R[1].shape = cond.r.shape \o <<3>>
                  /\ R[1].ch[1] = cond.r.px
                  /\ IsAllZero(R[1].ch[2]) /\ IsAllZero(R[1].ch[3])
                  /\ M[1].shape = cond.g.shape \o <<3>>
                  /\ M[1].ch[2] = cond.g.px
                  /\ cond.r.shape = cond.g.shape => M[1].ch[1] = cond.r.px
                  /\ Range(M[1].ch[1]) \subseteq Range(cond.r.px)
                  /\ IsAllZero(M[1].ch[3])

C8_Witness ==
    /\ pc = "scalebar"
    /\ Consistent
    /\ cfg.num_cols = 2
    /\ loaded[1].g_read = "FileNotFoundError"
    /\ loaded[2].g.px = <<<<0, 1>>, <<1, 1>>>>
    /\ loaded[2].r.px = <<<<0, 1>>, <<1, 1>>>>
    /\ axes.cells[<<2, 1>>].images # <<>>

(* C9: when the scale bar is enabled its rectangle is 250 pixels wide (100 *)
(* um at 2.5 px/um), its reference image is the image of the last          *)
(* processed condition, and for a reference image at least as wide as the  *)
(* bar plus its margin the rectangle lies within the image.                *)
C9_ScaleBarGeometry ==
    (pc \in {"save", "done"} /\ cfg.ADD_SCALEBAR) =>
        /\ Len(rect) = 1
        /\ rect[1].width = <<250, 1>>
        /\ rect[1].ref = Last(loaded).g.shape
        /\ Last(loaded).col = cfg.num_cols - 1
        /\ axes.cells[<<2, cfg.num_cols - 1>>].images[1].shape
              = rect[1].ref \o <<3>>
        /\ LET h == rect[1].ref[1]
               w == rect[1].ref[2]
               b == rect[1]
           IN  (100 * w >= 100 * 250 + 5 * w) =>
                  /\ RLe(<<0, 1>>, b.x)
                  /\ RLe(RAdd(b.x, b.width), <<w, 1>>)
                  /\ RLe(<<0, 1>>, b.y)
                  /\ RLe(RAdd(b.y, b.height), <<h, 1>>)
                  /\ RLt(<<0, 1>>, b.height)

C9_Witness ==
    /\ pc = "save"
    /\ cfg.ADD_SCALEBAR
    /\ Len(rect) = 1
    /\ rect[1].ref = <<280, 264>>
    /\ rect[1].x = <<4, 5>>
    /\ rect[1].width = <<250, 1>>

(* C10 as stated: one linear pass, conditions in declaration order, each   *)
(* one's steps complete before the next one's begin, no step retried; the  *)
(* scale bar drawn exactly once, after the last placement and before the   *)
(* export; the export at most once and last.                               *)
C10_AnnotatedExactlyOnce ==
    pc = "done" => Cardinality(StepsOf("scalebar")) = 1

(* C10 amended: as above, the scale bar being drawn exactly once when      *)
(* ADD_SCALEBAR is set and not at all when it is not.                      *)
C10_LinearPipeline ==
    /\ \A i, j \in DOMAIN trace : i < j => Before(trace[i], trace[j])
    /\ \A i \in DOMAIN trace :
          (i > 1 /\ trace[i].col # trace[i - 1].col) =>
              /\ trace[i].step = "paths"
              /\ trace[i].col = trace[i - 1].col + 1
              /\ trace[i - 1].step \in {"setup", "decorate"}
    /\ \A i \in StepsOf("scalebar") :
          /\ trace[i - 1] = [step |-> "decorate", col |-> cfg.num_cols - 1]
          /\ Cardinality(StepsOf("place")) = cfg.num_cols
    /\ \A i \in StepsOf("save") :
          /\ i = Len(trace)
          /\ trace[i - 1].step = IF cfg.ADD_SCALEBAR THEN "scalebar"
                                 ELSE "decorate"
          /\ Cardinality(StepsOf("place")) = cfg.num_cols
    /\ Cardinality(StepsOf("save")) = saved
    /\ saved <= 1
    /\ pc = "done" =>
          /\ saved = 1
          /\ Cardinality(StepsOf("scalebar")) = IF cfg.ADD_SCALEBAR THEN 1 ELSE 0
          /\ Len(rect) = Cardinality(StepsOf("scalebar"))

C10_Witness ==
    /\ pc = "done"
    /\ cfg.num_cols = 2
    /\ cfg.ADD_SCALEBAR
    /\ Len(trace) = 17
    /\ trace[16].step = "scalebar"
    /\ trace[17].step = "save"

====
